---- MODULE Spec2Model ----
(***************************************************************************)
(* A model of make_html.py: the import graph of the mathlib source tree,   *)
(* its transitive reduction, the per-file port data derived from it and    *)
(* the fence commits of the out-of-sync report.                            *)
(*                                                                         *)
(* Strings are TLA+ strings; a path is the sequence of its parts           *)
(* (pathlib's Path.parts); an Optional value is None = <<>> or             *)
(* Some(x) = <<x>>.  The tree maps a file to Some(its bytes as text) and a *)
(* directory to None; the directories above an entry exist with it.        *)
(***************************************************************************)
EXTENDS Integers, Sequences, FiniteSets, TLC

VARIABLES
    pc,           \* position in the run of the script
    root_path,    \* argument of parse_imports (parts of the path)
    tree,         \* the source tree: path (parts) -> Some(text) of a file, or
                  \* None for a directory
    port_status,  \* port_status_yaml.load(): import name -> status record
    history,      \* get_mathlib4_history(): import name -> sync commits
    graph,        \* the module-level graph: [nodes, edges]
    scanned_graph,\* what parse_imports returned, before line 278 rebinds graph
    data,         \* result of get_data(): import name -> Mathlib3FileData
    node_data,    \* graph nodes that carry a "data" attribute
    index,        \* the three groups make_index renders
    warnings      \* what logging.warning was called with, as a set

vars == <<pc, root_path, tree, port_status, history, graph, scanned_graph, data,
          node_data, index, warnings>>

\* ---------------------------------------------------------------- bounds

MaxFiles == 3      \* files in the scanned tree
MaxLines == 3      \* lines of text in the whole tree
MaxHistory == 2    \* entries of one file's mathlib4 history

\* ------------------------------------------------------------- utilities

None == <<>>
Some(x) == <<x>>

Last(s) == s[Len(s)]
Front(s) == SubSeq(s, 1, Len(s) - 1)

\* str.startswith
startswith(s, p) == Len(s) >= Len(p) /\ SubSeq(s, 1, Len(p)) = p

RECURSIVE find(_, _, _)
\* str.find, 1-based, 0 when absent; the search starts at index i
find(s, ch, i) ==
    IF i > Len(s) THEN 0
    ELSE IF SubSeq(s, i, i) = ch THEN i
    ELSE find(s, ch, i + 1)

RECURSIVE split(_, _)
\* str.split(sep) for a one-character separator
split(s, sep) ==
    LET i == find(s, sep, 1) IN
    IF i = 0 THEN <<s>>
    ELSE <<SubSeq(s, 1, i - 1)>> \o split(SubSeq(s, i + 1, Len(s)), sep)

RECURSIVE join(_, _)
\* sep.join(parts)
join(parts, sep) ==
    IF Len(parts) = 0 THEN ""
    ELSE IF Len(parts) = 1 THEN parts[1]
    ELSE parts[1] \o sep \o join(Tail(parts), sep)

\* Path.with_suffix('') on the final part: the last suffix is dropped
RECURSIVE rfind(_, _, _)
rfind(s, ch, i) ==
    IF i < 1 THEN 0
    ELSE IF SubSeq(s, i, i) = ch THEN i
    ELSE rfind(s, ch, i - 1)

strip_suffix(name) ==
    LET i == rfind(name, ".", Len(name)) IN
    IF i <= 1 \/ i = Len(name) THEN name ELSE SubSeq(name, 1, i - 1)

\* ------------------------------------------------------- parse_imports

\* re.compile(r"^import ([^ ]*)").match(line): the captured token, or None
import_re_match(line) ==
    IF startswith(line, "import ")
    THEN LET rest == SubSeq(line, 8, Len(line))
             i == find(rest, " ", 1)
         IN  Some(IF i = 0 THEN rest ELSE SubSeq(rest, 1, i - 1))
    ELSE None

\* path.relative_to(root_path): root_path is a prefix of every globbed path
relative_to(path, root) == SubSeq(path, Len(root) + 1, Len(path))

mk_label(path, root) ==
    LET rel == relative_to(path, root) IN
    join(Front(rel) \o <<strip_suffix(Last(rel))>>, ".")

\* every path of the tree: its entries and the directories above them
tree_paths(t) == DOMAIN t \cup UNION {{SubSeq(p, 1, k) : k \in 1..(Len(p) - 1)} : p \in DOMAIN t}

is_dir(t, p) == p \notin DOMAIN t \/ t[p] = None

RECURSIVE universal_newlines(_)
\* text mode of open(): CR LF and CR are read as LF
universal_newlines(s) ==
    LET i == find(s, "\r", 1) IN
    IF i = 0 THEN s
    ELSE SubSeq(s, 1, i - 1) \o "\n" \o
         universal_newlines(
             IF i < Len(s) /\ SubSeq(s, i + 1, i + 1) = "\n"
             THEN SubSeq(s, i + 2, Len(s)) ELSE SubSeq(s, i + 1, Len(s)))

\* path.read_text() of a file (line 112); on a directory it raises
read_text(t, p) == universal_newlines(t[p][1])

\* root_path.glob('**/*.lean'): files and directories alike
glob_lean(t, root) ==
    {p \in tree_paths(t) : /\ Len(p) > Len(root)
                      /\ SubSeq(p, 1, Len(root)) = root
                      /\ Len(Last(p)) >= 5
                      /\ SubSeq(Last(p), Len(Last(p)) - 4, Len(Last(p))) = ".lean"}

\* the test of lines 104 and 109: path.parts[1] (0-based) in ['tactic', 'meta']
skipped(path) == path[2] \in {"tactic", "meta"}

scanned(t, root) == {p \in glob_lean(t, root) : ~skipped(p)}

EmptyGraph == [nodes |-> {}, edges |-> {}]

add_edge(g, u, v) == [nodes |-> g.nodes \cup {u, v}, edges |-> g.edges \cup {<<u, v>>}]

\* resolve_import with the two tests in the other order: the .default file
\* wins over the file itself
resolve_import_default_first(g, imported) ==
    IF (imported \o ".default") \in g.nodes THEN imported \o ".default"
    ELSE IF imported \notin g.nodes THEN "lean_core." \o imported
    ELSE imported

\* lines 115-122: the node an import token refers to
resolve_import(g, imported) ==
    IF imported \notin g.nodes
    THEN IF (imported \o ".default") \in g.nodes
         THEN imported \o ".default"
         ELSE "lean_core." \o imported
    ELSE imported

\* lines 113-123, one line of a file
scan_line(g, label, line) ==
    LET m == import_re_match(line) IN
    IF m = None THEN g
    ELSE LET imported == m[1] IN
         IF startswith(imported, "tactic.") \/ startswith(imported, "meta.")
         THEN g
         ELSE add_edge(g, resolve_import(g, imported), label)

RECURSIVE scan_lines(_, _, _)
scan_lines(g, label, lines) ==
    IF Len(lines) = 0 THEN g
    ELSE scan_lines(scan_line(g, label, Head(lines)), label, Tail(lines))

RECURSIVE scan_files(_, _, _, _)
\* lines 108-123: the second loop, over the files in the order the glob
\* yields them
scan_files(g, t, root, order) ==
    IF Len(order) = 0 THEN g
    ELSE LET p == Head(order)
             g2 == scan_lines(g, mk_label(p, root), split(read_text(t, p), "\n"))
         IN  scan_files(g2, t, root, Tail(order))

\* line 112 raises IsADirectoryError when the loop comes to a directory
read_text_raises(t, root) == \E p \in scanned(t, root) : is_dir(t, p)

RECURSIVE glob_orders(_)
\* the orders in which the file system may yield a set of paths
glob_orders(S) ==
    IF S = {} THEN {<<>>}
    ELSE UNION {{<<p>> \o o : o \in glob_orders(S \ {p})} : p \in S}

\* lines 103-106: the first loop over the glob
graph_nodes(t, root) ==
    [nodes |-> {mk_label(p, root) : p \in scanned(t, root)}, edges |-> {}]

\* parse_imports when no read raises; order is the glob's order of the
\* paths the second loop visits
parse_imports(t, root, order) ==
    scan_files(graph_nodes(t, root), t, root, order)

\* ------------------------------------------------- networkx, line 278

successors(g, u) == {e[2] : e \in {d \in g.edges : d[1] = u}}
predecessors(g, v) == {e[1] : e \in {d \in g.edges : d[2] = v}}

RECURSIVE forward_closure(_, _)
\* the nodes of S and all nodes a directed path leads to from them
forward_closure(g, S) ==
    LET T == S \cup UNION {successors(g, u) : u \in S} IN
    IF T = S THEN S ELSE forward_closure(g, T)

RECURSIVE backward_closure(_, _)
backward_closure(g, S) ==
    LET T == S \cup UNION {predecessors(g, v) : v \in S} IN
    IF T = S THEN S ELSE backward_closure(g, T)

\* nx.descendants and nx.ancestors: the source itself is never included
descendants(g, n) == forward_closure(g, {n}) \ {n}
ancestors(g, n) == backward_closure(g, {n}) \ {n}

\* an acyclicity test that overlooks self-loops
acyclic_but_for_self_loops(g) ==
    \A n \in g.nodes : n \notin forward_closure(g, successors(g, n) \ {n})

\* nx.is_directed_acyclic_graph: no node lies on a cycle (a self-loop is one)
is_directed_acyclic_graph(g) ==
    \A n \in g.nodes : n \notin forward_closure(g, successors(g, n))

\* a reduction that also drops u -> v because v is a successor of u
transitive_reduction_too_far(g) ==
    [nodes |-> g.nodes,
     edges |-> {e \in g.edges :
                   e[2] \notin UNION {forward_closure(g, {w}) : w \in successors(g, e[1])}}]

\* nx.transitive_reduction on an acyclic graph: all nodes are kept, and of the
\* edges u -> v those whose v is no descendant of another successor of u
transitive_reduction(g) ==
    [nodes |-> g.nodes,
     edges |-> {e \in g.edges :
                   e[2] \notin UNION {descendants(g, w) : w \in successors(g, e[1])}}]

\* ------------------------------------------------------ Mathlib3FileData

UNPORTED == "UNPORTED"
IN_PROGRESS == "IN_PROGRESS"
PORTED == "PORTED"
\* the enumeration declared in the opposite order
PortState_reversed == <<PORTED, IN_PROGRESS, UNPORTED>>

\* the members of PortState in declaration order (iteration order of the Enum)
PortState == <<UNPORTED, IN_PROGRESS, PORTED>>

\* truth value of Optional[int] and of Optional[Source] (a dataclass instance)
truthy_int(o) == o # None /\ o[1] # 0
truthy_obj(o) == o # None

\* a classification that takes the pull request alone as a port in progress
state_by_pr_alone(status) ==
    IF status.ported THEN PORTED
    ELSE IF truthy_int(status.mathlib4_pr) THEN IN_PROGRESS
    ELSE UNPORTED

\* Mathlib3FileData.state
state(status) ==
    IF status.ported THEN PORTED
    ELSE IF truthy_int(status.mathlib4_pr) /\ truthy_obj(status.source) THEN IN_PROGRESS
    ELSE UNPORTED

\* Mathlib3FileData.dep_counts of data[f] in the map d
dep_counts(d, f) ==
    IF d[f].dependencies # None
    THEN Some([k \in 1..Len(PortState) |->
                 Cardinality({x \in d[f].dependencies[1] :
                                 state(d[x].status) = PortState[k]})])
    ELSE None

\* Python integers are unbounded; a value is held as three base-10^9 digits,
\* most significant first
BigInt(n) == <<0, n \div 1000000000, n % 1000000000>>
BigLess(x, y) ==
    \/ x[1] < y[1]
    \/ x[1] = y[1] /\ x[2] < y[2]
    \/ x[1] = y[1] /\ x[2] = y[2] /\ x[3] < y[3]
BigLeq(x, y) == x = y \/ BigLess(x, y)

\* sys.maxsize = 2^63 - 1 = 9223372036854775807
SysMaxsize == <<9, 223372036, 854775807>>

IN_PROGRESS_EQUIV_UNPORTED == 5

\* a sort key that puts the files without dependency data first
dep_counts_sort_key_none_first(d, f) ==
    LET c == dep_counts(d, f) IN
    IF c = None THEN BigInt(0)
    ELSE BigInt(c[1][1] * 10000 * IN_PROGRESS_EQUIV_UNPORTED + c[1][2] * 10000)

\* Mathlib3FileData.dep_counts_sort_key
dep_counts_sort_key(d, f) ==
    LET c == dep_counts(d, f) IN
    IF c = None THEN SysMaxsize
    ELSE BigInt(c[1][1] * 10000 * IN_PROGRESS_EQUIV_UNPORTED + c[1][2] * 10000)

\* the subgraph of the unported dependencies without the file itself
dep_graph_data_without_self(g, nd, d, f) ==
    LET unported_deps == {x \in d[f].dependencies[1] : state(d[x].status) # PORTED}
        unported_deps_names == {join(d[x].mathlib3_import, ".") : x \in unported_deps}
        sub_nodes == g.nodes \cap unported_deps_names
        sub_edges == {e \in g.edges : e[1] \in sub_nodes /\ e[2] \in sub_nodes}
    IN  [edges |-> sub_edges,
         node_data |-> [n \in sub_nodes \cap nd |-> state(d[n].status)]]

\* Mathlib3FileData.dep_graph_data of data[f]; g is the module-level graph and
\* nd the nodes that carry "data"
dep_graph_data(g, nd, d, f) ==
    LET unported_deps == {f} \cup {x \in d[f].dependencies[1] :
                                      state(d[x].status) # PORTED}
        unported_deps_names == {join(d[x].mathlib3_import, ".") : x \in unported_deps}
        sub_nodes == g.nodes \cap unported_deps_names
        sub_edges == {e \in g.edges : e[1] \in sub_nodes /\ e[2] \in sub_nodes}
    IN  [edges |-> sub_edges,
         node_data |-> [n \in sub_nodes \cap nd |-> state(d[n].status)]]

\* ---------------------------------------------------------------- get_data

\* lines 297-303: the record built for one status entry (lines and labels,
\* read from disk and from GitHub, are not part of the model)
new_file_data(f, status) ==
    [mathlib3_import |-> split(f, "."),
     status |-> status,
     dependents |-> None,
     dependencies |-> None,
     forward_port |-> None,
     mathlib4_history |-> <<>>]

\* the direct importers and imports in place of the transitive ones
with_direct_dependencies(g, keys, f, fd) ==
    IF f \in g.nodes
    THEN [fd EXCEPT !.dependents = Some(successors(g, f) \cap keys),
                    !.dependencies = Some(predecessors(g, f) \cap keys)]
    ELSE fd

\* lines 305-315 for one file
with_dependencies(g, keys, f, fd) ==
    IF f \in g.nodes
    THEN [fd EXCEPT !.dependents = Some(descendants(g, f) \cap keys),
                    !.dependencies = Some(ancestors(g, f) \cap keys)]
    ELSE fd

\* lines 318-320: history.get(f_import, [])
history_get(h, f) == IF f \in DOMAIN h THEN h[f] ELSE <<>>

get_data(ps, h, g) ==
    [f \in DOMAIN ps |->
        [with_dependencies(g, DOMAIN ps, f, new_file_data(f, ps[f]))
            EXCEPT !.mathlib4_history = history_get(h, f)]]

\* line 315: the nodes that get a "data" attribute
data_nodes(ps, g) == DOMAIN ps \cap g.nodes

\* lines 326-335 of make_index
groups(d) ==
    [s \in {PORTED, IN_PROGRESS, UNPORTED} |->
        {f \in DOMAIN d : state(d[f].status) = s}]

\* --------------------------------------------------------- make_out_of_sync

MathlibRepo == "leanprover-community/mathlib"
\* the commits git.Repo(mathlib_dir) holds
MathlibCommits == {"c1", "c2", "c3"}

\* mathlib_repo.commit(sha) inside try/except: the commit, or None
try_commit(sha) == IF sha \in MathlibCommits THEN Some(sha) ELSE None

RECURSIVE first_real(_)
\* lines 371-377: the last entry of the history that resolves
first_real(hist) ==
    IF Len(hist) = 0 THEN None
    ELSE IF try_commit(Last(hist)) # None THEN try_commit(Last(hist))
    ELSE first_real(Front(hist))

\* line 360: the files the loop does not skip at once
has_mathlib_source(fd) ==
    fd.status.source # None /\ fd.status.source[1].repo = MathlibRepo

\* a reconciler that reports every missing fence, whatever the port state
reconcile_always_warns(f, fd) ==
    LET sync_commit == try_commit(fd.status.source[1].commit)
        base_commit == IF Len(fd.mathlib4_history) > 0
                       THEN first_real(fd.mathlib4_history) ELSE None
        st == state(fd.status)
    IN  IF base_commit = None /\ sync_commit # None
        THEN [skip |-> FALSE, base |-> sync_commit, sync |-> sync_commit,
              warn |-> {"no base commit for: " \o f}]
        ELSE IF sync_commit = None /\ base_commit # None
        THEN [skip |-> FALSE, base |-> base_commit, sync |-> base_commit,
              warn |-> {"no sync commit for: " \o f}]
        ELSE IF sync_commit = None /\ base_commit = None
        THEN [skip |-> TRUE, base |-> None, sync |-> None,
              warn |-> IF st # UNPORTED
                       THEN {"no commits at all for: " \o f \o " PortState." \o st}
                       ELSE {}]
        ELSE [skip |-> FALSE, base |-> base_commit, sync |-> sync_commit, warn |-> {}]

\* lines 364-405 for one file: [skip, base, sync, warn]
reconcile(f, fd) ==
    LET sync_commit == try_commit(fd.status.source[1].commit)
        base_commit == IF Len(fd.mathlib4_history) > 0
                       THEN first_real(fd.mathlib4_history) ELSE None
        st == state(fd.status)
    IN  IF base_commit = None /\ sync_commit # None
        THEN [skip |-> FALSE, base |-> sync_commit, sync |-> sync_commit,
              warn |-> IF st = PORTED THEN {"no base commit for: " \o f} ELSE {}]
        ELSE IF sync_commit = None /\ base_commit # None
        THEN [skip |-> FALSE, base |-> base_commit, sync |-> base_commit,
              warn |-> IF st # UNPORTED THEN {"no sync commit for: " \o f} ELSE {}]
        ELSE IF sync_commit = None /\ base_commit = None
        THEN [skip |-> TRUE, base |-> None, sync |-> None,
              warn |-> IF st # UNPORTED
                       THEN {"no commits at all for: " \o f \o " PortState." \o st}
                       ELSE {}]
        ELSE [skip |-> FALSE, base |-> base_commit, sync |-> sync_commit, warn |-> {}]

\* lines 399-405: the ForwardPortInfo; the commit lists are the git ranges
\* base..sync and sync..HEAD, the diff is git's
forward_port_info(r) ==
    Some([base_commit |-> r.base[1],
          ported_range |-> <<r.base[1], r.sync[1]>>,
          unported_range |-> <<r.sync[1], "HEAD">>])

out_of_sync_file(f, fd) ==
    IF ~has_mathlib_source(fd) THEN fd
    ELSE LET r == reconcile(f, fd) IN
         IF r.skip THEN fd ELSE [fd EXCEPT !.forward_port = forward_port_info(r)]

out_of_sync_warnings(d) ==
    UNION {reconcile(f, d[f]).warn : f \in {k \in DOMAIN d : has_mathlib_source(d[k])}}

\* ------------------------------------------------------------ the inputs

RECURSIVE SeqsOfLen(_, _)
SeqsOfLen(S, n) ==
    IF n <= 0 THEN {<<>>}
    ELSE {Append(s, x) : s \in SeqsOfLen(S, n - 1), x \in S}

SeqsUpTo(S, n) == UNION {SeqsOfLen(S, k) : k \in 0..n}

RECURSIVE TreeIs(_, _, _, _, _, _, _)
\* tree holds, under root, at most nf entries and at most nl lines in all:
\* files among paths, empty directories among dirs; acc is the part chosen
TreeIs(root, paths, dirs, lines, nf, nl, acc) ==
    IF nf <= 0 \/ (paths = {} /\ dirs = {}) THEN tree = acc
    ELSE IF dirs # {}
    THEN LET d == CHOOSE q \in dirs : TRUE IN
         \/ TreeIs(root, paths, dirs \ {d}, lines, nf, nl, acc)
         \/ TreeIs(root, paths, dirs \ {d}, lines, nf - 1, nl, acc @@ ((root \o d) :> None))
    ELSE LET p == CHOOSE q \in paths : TRUE
             rest == paths \ {p}
         IN  \/ TreeIs(root, rest, dirs, lines, nf, nl, acc)
             \/ \E k \in 0..nl : \E ls \in SeqsOfLen(lines, k) :
                    TreeIs(root, rest, dirs, lines, nf - 1, nl - k,
                           acc @@ ((root \o p) :> Some(join(ls, "\n"))))

\* a directory whose name the glob matches
LeanDirs == {<<"d.lean">>}

\* mathlib_dir / 'src' (lines 261, 274, 277), and a one-part root
MathlibSrc == <<"build", "repos", "mathlib", "src">>
RootPaths == {MathlibSrc, <<"src">>}

GraphPaths == {<<"a.lean">>, <<"b.lean">>, <<"a", "default.lean">>, <<"tactic", "t.lean">>}
GraphLines == {"import a", "import b", "import tactic.t", "import init"}

\* the status maps port_status_yaml.load() can return over keys
StatusMaps(keys, statuses) == UNION {[K -> statuses] : K \in SUBSET keys}

\* the results of get_mathlib4_history over keys: a key may be absent
HistoryMaps(keys, commits, n) == UNION {[K -> SeqsUpTo(commits, n)] : K \in SUBSET keys}

Source(repo, commit) == [repo |-> repo, commit |-> commit]
Status(ported, pr, source) == [ported |-> ported, mathlib4_pr |-> pr, source |-> source]

Setup(roots, paths, lines, statuses, histories) ==
    /\ pc = "start"
    /\ root_path \in roots
    /\ TreeIs(root_path, paths, LeanDirs, lines, MaxFiles, MaxLines, <<>>)
    /\ port_status \in statuses
    /\ history \in histories
    /\ graph = EmptyGraph
    /\ scanned_graph = EmptyGraph
    /\ data = <<>>
    /\ node_data = {}
    /\ index = <<>>
    /\ warnings = {}

\* the import scan: many trees, both roots, no tracked file
InitGraph ==
    Setup(RootPaths, GraphPaths, GraphLines, {<<>>}, {<<>>})

\* the aggregation: three files importing one another, tracked or not, in
\* each port state
DataPaths == {<<"a.lean">>, <<"b.lean">>, <<"c.lean">>}
DataLines == {"import a", "import b"}
DataStatuses ==
    {Status(TRUE, None, None),
     Status(FALSE, Some(42), Some(Source(MathlibRepo, "c1"))),
     Status(FALSE, Some(42), None),
     Status(FALSE, None, None)}

InitData ==
    Setup({MathlibSrc}, DataPaths, DataLines,
          StatusMaps({"a", "b", "c"}, DataStatuses), {<<>>})

\* the reconciler: one tracked file with every status and history
SyncPaths == {<<"a.lean">>}
SyncLines == {"import a", "import a\r"}
SyncStatuses ==
    {Status(p, pr, src) :
        p \in BOOLEAN, pr \in {None, Some(42)},
        src \in {None} \cup {Some(Source(r, c)) :
                    r \in {MathlibRepo, "leanprover-community/mathlib4"},
                    c \in {"c1", "bad"}}}
SyncHistoryCommits == {"c2", "c3", "gone"}

InitSync ==
    Setup({MathlibSrc}, SyncPaths, SyncLines,
          StatusMaps({"a"}, SyncStatuses),
          HistoryMaps({"a"}, SyncHistoryCommits, MaxHistory))

\* ------------------------------------------------------------ the actions

\* line 277: graph = parse_imports(mathlib_dir / 'src')
ParseImports ==
    /\ pc = "start"
    /\ ~read_text_raises(tree, root_path)
    /\ \E order \in glob_orders(scanned(tree, root_path)) :
           graph' = parse_imports(tree, root_path, order)
    /\ scanned_graph' = graph'
    /\ pc' = "parsed"
    /\ UNCHANGED <<root_path, tree, port_status, history, data, node_data, index, warnings>>

\* line 277 when a directory matches the glob: read_text raises inside
\* parse_imports at module level and the script ends
ParseImportsRaises ==
    /\ pc = "start"
    /\ read_text_raises(tree, root_path)
    /\ pc' = "fatal"
    /\ UNCHANGED <<root_path, tree, port_status, history, graph, scanned_graph, data,
                   node_data, index, warnings>>

\* line 278: graph = nx.transitive_reduction(graph)
TransitiveReduction ==
    /\ pc = "parsed"
    /\ is_directed_acyclic_graph(graph)
    /\ graph' = transitive_reduction(graph)
    /\ pc' = "reduced"
    /\ UNCHANGED <<root_path, tree, port_status, history, scanned_graph, data, node_data,
                   index, warnings>>

\* line 278 on a graph with a cycle: networkx raises NetworkXError at module
\* level and the script ends
TransitiveReductionRaises ==
    /\ pc = "parsed"
    /\ ~is_directed_acyclic_graph(graph)
    /\ pc' = "fatal"
    /\ UNCHANGED <<root_path, tree, port_status, history, graph, scanned_graph, data,
                   node_data, index, warnings>>

\* line 434: make_index, the first caller of get_data
MakeIndex ==
    /\ pc = "reduced"
    /\ data' = get_data(port_status, history, graph)
    /\ node_data' = data_nodes(port_status, graph)
    /\ index' = groups(data')
    /\ pc' = "indexed"
    /\ UNCHANGED <<root_path, tree, port_status, history, graph, scanned_graph, warnings>>

\* line 435: make_out_of_sync, the loop of lines 357-405
MakeOutOfSync ==
    /\ pc = "indexed"
    /\ data' = [f \in DOMAIN data |-> out_of_sync_file(f, data[f])]
    /\ warnings' = out_of_sync_warnings(data)
    /\ pc' = "done"
    /\ UNCHANGED <<root_path, tree, port_status, history, graph, scanned_graph, node_data,
                   index>>

Next ==
    \/ ParseImports
    \/ ParseImportsRaises
    \/ TransitiveReduction
    \/ TransitiveReductionRaises
    \/ MakeIndex
    \/ MakeOutOfSync

SpecGraph == InitGraph /\ [][Next]_vars
SpecData == InitData /\ [][Next]_vars
SpecSync == InitSync /\ [][Next]_vars

\* ---------------------------------------------------------- the properties

Aggregated == pc \in {"indexed", "done"}
Reduced == pc \in {"reduced", "indexed", "done"}

\* the nodes u reaches by a directed path of at least one edge
Reachable(g, u) == forward_closure(g, successors(g, u))
Reaches(g, u, v) == v \in Reachable(g, u)

\* C1: every status record is put in exactly one of the three port states, and
\* the state depends on (ported, mathlib4_pr, source) alone: PORTED when ported,
\* IN_PROGRESS when not ported with a pull request and a source, UNPORTED
\* otherwise.
C1_PortStateRule ==
    Aggregated =>
        /\ DOMAIN index = {UNPORTED, IN_PROGRESS, PORTED}
        /\ \A f \in DOMAIN port_status :
              LET st == port_status[f]
                  expected == IF st.ported THEN PORTED
                              ELSE IF st.mathlib4_pr # None /\ st.source # None
                                   THEN IN_PROGRESS
                                   ELSE UNPORTED
              IN  \A s \in DOMAIN index : f \in index[s] <=> s = expected

\* a file with a pull request and no source has been classified UNPORTED
C1_Witness ==
    /\ pc = "indexed"
    /\ "a" \in DOMAIN port_status
    /\ ~port_status["a"].ported
    /\ port_status["a"].mathlib4_pr = Some(42)
    /\ port_status["a"].source = None
    /\ "a" \in index[UNPORTED]

\* the import lines of the scanned files whose token is not in an excluded
\* category: <<label of the importing file, token>>
LinesOf(p) == LET ls == split(read_text(tree, p), "\n") IN {ls[i] : i \in 1..Len(ls)}
Counted(line) ==
    /\ import_re_match(line) # None
    /\ ~startswith(import_re_match(line)[1], "tactic.")
    /\ ~startswith(import_re_match(line)[1], "meta.")
ImportLines ==
    UNION {{<<mk_label(p, root_path), import_re_match(l)[1]>> :
               l \in {x \in LinesOf(p) : Counted(x)}} :
           p \in scanned(tree, root_path)}

FileNodes == {mk_label(p, root_path) : p \in scanned(tree, root_path)}

\* C2 as stated: the edges of the scanned graph are exactly, for every import
\* line `import T` of a file F, the edge from the target to F, where the target
\* is T.default if that is a file node, else lean_core.T if T is no file node,
\* else T.
C2_DefaultFirst ==
    pc = "parsed" =>
        graph.edges =
            {<<IF (il[2] \o ".default") \in FileNodes THEN il[2] \o ".default"
               ELSE IF il[2] \notin FileNodes THEN "lean_core." \o il[2]
               ELSE il[2],
               il[1]>> : il \in ImportLines}

\* C2, amended: the target is T if T is a file node, else T.default if that is
\* a file node, else lean_core.T.
C2_NodeFirst ==
    pc = "parsed" =>
        graph.edges =
            {<<IF il[2] \in FileNodes THEN il[2]
               ELSE IF (il[2] \o ".default") \in FileNodes THEN il[2] \o ".default"
               ELSE "lean_core." \o il[2],
               il[1]>> : il \in ImportLines}

\* with a/default.lean and no a.lean, `import a` in b gives the one edge
\* a.default -> b
C2_Witness ==
    /\ pc = "parsed"
    /\ root_path = <<"src">>
    /\ DOMAIN tree = {<<"src", "a", "default.lean">>, <<"src", "b.lean">>}
    /\ tree[<<"src", "b.lean">>] = Some("import a")
    /\ tree[<<"src", "a", "default.lean">>] = Some("")
    /\ graph.edges = {<<"a.default", "b">>}

\* C3: a file of a subtree of root_path whose top-level segment is tactic or
\* meta is no node of the graph and no import line of it adds an edge,
\* whatever the number of parts of root_path.
C3_ExcludedSubtreesSkipped ==
    pc # "start" =>
        \A p \in {q \in glob_lean(tree, root_path) : ~is_dir(tree, q)} :
            LET rel == relative_to(p, root_path) IN
            (Len(rel) > 1 /\ rel[1] \in {"tactic", "meta"}) =>
                /\ mk_label(p, root_path) \notin graph.nodes
                /\ \A e \in graph.edges : e[2] # mk_label(p, root_path)

HasCycle(g) ==
    \E e \in g.edges : e[1] = e[2] \/ e[1] \in forward_closure(g, {e[2]})

\* C4: when the scanned graph has a cycle the run ends in the fatal state at
\* the reduction: the graph is not replaced and nothing is aggregated or
\* rendered.
C4_CycleIsFatal ==
    HasCycle(scanned_graph) =>
        /\ pc \in {"parsed", "fatal"}
        /\ pc = "fatal" => graph = scanned_graph
        /\ data = <<>> /\ index = <<>> /\ node_data = {} /\ warnings = {}

\* a self-import has ended the run
C4_Witness ==
    /\ pc = "fatal"
    /\ \E n \in graph.nodes : <<n, n>> \in graph.edges

\* C5: on an acyclic scanned graph the reduced graph has the same nodes and
\* the same reachability.
C5_ReachabilityPreserved ==
    Reduced =>
        /\ graph.nodes = scanned_graph.nodes
        /\ graph.edges \subseteq scanned_graph.edges
        /\ \A u \in graph.nodes : Reachable(graph, u) = Reachable(scanned_graph, u)

\* the reduction has removed an edge
C5_Witness ==
    /\ pc = "reduced"
    /\ graph.edges # scanned_graph.edges
    /\ \E u, v \in graph.nodes : Reaches(graph, u, v) /\ <<u, v>> \notin graph.edges

\* C6: after get_data a tracked file that is a graph node has as dependencies
\* the tracked files that reach it and as dependents the tracked files it
\* reaches, itself excluded; v is a dependency of u iff u is a dependent of v;
\* a tracked file that is no graph node has neither list.
C6_DependencySets ==
    Aggregated =>
        /\ \A u \in DOMAIN data :
              IF u \in graph.nodes
              THEN /\ data[u].dependencies =
                         Some({v \in DOMAIN data \ {u} : Reaches(graph, v, u)})
                   /\ data[u].dependents =
                         Some({v \in DOMAIN data \ {u} : Reaches(graph, u, v)})
              ELSE data[u].dependencies = None /\ data[u].dependents = None
        /\ \A u, v \in DOMAIN data \cap graph.nodes :
              v \in data[u].dependencies[1] <=> u \in data[v].dependents[1]

\* c depends on a through the untracked b; a tracked file is missing from the graph
C6_Witness ==
    /\ pc = "indexed"
    /\ DOMAIN data = {"a", "c"}
    /\ graph.edges = {<<"a", "b">>, <<"b", "c">>}
    /\ data["c"].dependencies = Some({"a"})
    /\ data["a"].dependents = Some({"c"})

\* C7: dep_counts is (unported, in_progress, ported), the numbers of the
\* dependencies in each state, which sum to the number of dependencies; it is
\* None exactly when the dependencies were never computed; in the chain c
\* imports b imports a with a PORTED, b IN_PROGRESS, c UNPORTED it is (0, 1, 1)
\* for c.
C7_DepCounts ==
    Aggregated =>
        /\ \A f \in DOMAIN data :
              LET c == dep_counts(data, f) IN
              /\ c = None <=> data[f].dependencies = None
              /\ c = None <=> f \notin graph.nodes
              /\ c # None =>
                    LET deps == data[f].dependencies[1] IN
                    /\ c[1] = <<Cardinality(deps \cap index[UNPORTED]),
                                Cardinality(deps \cap index[IN_PROGRESS]),
                                Cardinality(deps \cap index[PORTED])>>
                    /\ c[1][1] + c[1][2] + c[1][3] = Cardinality(deps)
        /\ ( /\ scanned_graph.edges = {<<"a", "b">>, <<"b", "c">>}
             /\ DOMAIN data = {"a", "b", "c"}
             /\ "a" \in index[PORTED] /\ "b" \in index[IN_PROGRESS]
             /\ "c" \in index[UNPORTED] )
           => dep_counts(data, "c") = Some(<<0, 1, 1>>)

C7_Witness ==
    /\ pc = "indexed"
    /\ scanned_graph.edges = {<<"a", "b">>, <<"b", "c">>}
    /\ DOMAIN data = {"a", "b", "c"}
    /\ "a" \in index[PORTED] /\ "b" \in index[IN_PROGRESS] /\ "c" \in index[UNPORTED]
    /\ dep_counts(data, "c") = Some(<<0, 1, 1>>)
    /\ data["c"].dependencies = Some({"a", "b"})

\* the numbers of unported and of in-progress dependencies of a file with
\* dependency data, counted from the groups of the index
UnportedDeps(f) == Cardinality(data[f].dependencies[1] \cap index[UNPORTED])
InProgressDeps(f) == Cardinality(data[f].dependencies[1] \cap index[IN_PROGRESS])
HasDepData(f) == data[f].dependencies # None

\* C8: the sort key is unported*10000*5 + in_progress*10000; it does not
\* decrease when one of the two counts grows and the other stays; a file with
\* neither kind of dependency sorts strictly before a file with one; a file
\* without dependency data has a key at least as large as any file with.
C8_SortKey ==
    Aggregated =>
        \A f, g \in DOMAIN data :
            LET kf == dep_counts_sort_key(data, f)
                kg == dep_counts_sort_key(data, g)
            IN  /\ HasDepData(f) =>
                      kf = BigInt(UnportedDeps(f) * 50000 + InProgressDeps(f) * 10000)
                /\ (HasDepData(f) /\ HasDepData(g)) =>
                      /\ ( UnportedDeps(f) <= UnportedDeps(g)
                           /\ InProgressDeps(f) = InProgressDeps(g) ) => BigLeq(kf, kg)
                      /\ ( InProgressDeps(f) <= InProgressDeps(g)
                           /\ UnportedDeps(f) = UnportedDeps(g) ) => BigLeq(kf, kg)
                      /\ ( UnportedDeps(f) = 0 /\ InProgressDeps(f) = 0
                           /\ UnportedDeps(g) + InProgressDeps(g) > 0 ) => BigLess(kf, kg)
                /\ (HasDepData(f) /\ ~HasDepData(g)) => BigLeq(kf, kg)

\* three files: one without dependency data, one with an unported
\* dependency, one with no dependency
C8_Witness ==
    /\ pc = "indexed"
    /\ \E f, g, h \in DOMAIN data :
          /\ ~HasDepData(f)
          /\ HasDepData(g) /\ UnportedDeps(g) = 1 /\ InProgressDeps(g) = 0
          /\ HasDepData(h) /\ UnportedDeps(h) = 0 /\ InProgressDeps(h) = 0
          /\ dep_counts_sort_key(data, g) = <<0, 0, 50000>>
          /\ dep_counts_sort_key(data, h) = <<0, 0, 0>>
          /\ dep_counts_sort_key(data, f) = <<9, 223372036, 854775807>>

\* C9: dep_graph_data of a file f with dependencies returns the edges of the
\* reduced graph inside S = {f} + the dependencies of f that are not PORTED,
\* and a node map with exactly the keys S, each mapped to its port state.
C9_DependencySubgraph ==
    Aggregated =>
        \A f \in DOMAIN data :
            HasDepData(f) =>
                LET S == {f} \cup (data[f].dependencies[1] \ index[PORTED])
                    r == dep_graph_data(graph, node_data, data, f)
                IN  /\ r.edges = {e \in graph.edges : e[1] \in S /\ e[2] \in S}
                    /\ DOMAIN r.node_data = S
                    /\ \A n \in S : n \in index[r.node_data[n]]

\* a PORTED file with a PORTED and an unported dependency
C9_Witness ==
    /\ pc = "indexed"
    /\ DOMAIN data = {"a", "b", "c"}
    /\ graph.edges = {<<"a", "c">>, <<"b", "c">>}
    /\ "a" \in index[PORTED] /\ "b" \in index[UNPORTED] /\ "c" \in index[PORTED]
    /\ dep_graph_data(graph, node_data, data, "c") =
          [edges |-> {<<"b", "c">>},
           node_data |-> [n \in {"b", "c"} |-> IF n = "b" THEN UNPORTED ELSE PORTED]]

\* the fences of a tracked file, read from the inputs
SyncResolves(f) == port_status[f].source[1].commit \in MathlibCommits
BaseHistory(f) == IF f \in DOMAIN history THEN history[f] ELSE <<>>
BaseResolves(f) == \E i \in 1..Len(BaseHistory(f)) : BaseHistory(f)[i] \in MathlibCommits
LatestBase(f) ==
    LET h == BaseHistory(f)
        i == CHOOSE k \in 1..Len(h) :
                /\ h[k] \in MathlibCommits
                /\ \A j \in (k + 1)..Len(h) : h[j] \notin MathlibCommits
    IN  h[i]
Reconciled(f) ==
    port_status[f].source # None /\ port_status[f].source[1].repo = MathlibRepo
WarnedAbout(f) ==
    \E w \in warnings :
        \/ w = "no base commit for: " \o f
        \/ w = "no sync commit for: " \o f
        \/ startswith(w, "no commits at all for: " \o f \o " ")
FencesOf(f, base, sync) ==
    data[f].forward_port =
        Some([base_commit |-> base, ported_range |-> <<base, sync>>,
              unported_range |-> <<sync, "HEAD">>])

\* C10 as stated: when exactly one fence is unresolvable a warning is logged
\* and the other fence stands in for it; when both are, the file is skipped,
\* with a warning unless the file is UNPORTED.
C10_AlwaysWarns ==
    pc = "done" =>
        \A f \in {k \in DOMAIN data : Reconciled(k)} :
            /\ (SyncResolves(f) /\ ~BaseResolves(f)) =>
                  /\ WarnedAbout(f)
                  /\ FencesOf(f, port_status[f].source[1].commit,
                              port_status[f].source[1].commit)
            /\ (~SyncResolves(f) /\ BaseResolves(f)) =>
                  /\ WarnedAbout(f)
                  /\ FencesOf(f, LatestBase(f), LatestBase(f))
            /\ (~SyncResolves(f) /\ ~BaseResolves(f)) =>
                  /\ data[f].forward_port = None
                  /\ WarnedAbout(f) <=> f \notin index[UNPORTED]

\* C10, amended: the warning for a single missing fence depends on the port
\* state: a missing base commit is reported for a PORTED file only, a missing
\* sync commit for a file that is not UNPORTED.
C10_WarnsByState ==
    pc = "done" =>
        \A f \in {k \in DOMAIN data : Reconciled(k)} :
            /\ (SyncResolves(f) /\ ~BaseResolves(f)) =>
                  /\ WarnedAbout(f) <=> f \in index[PORTED]
                  /\ FencesOf(f, port_status[f].source[1].commit,
                              port_status[f].source[1].commit)
            /\ (~SyncResolves(f) /\ BaseResolves(f)) =>
                  /\ WarnedAbout(f) <=> f \notin index[UNPORTED]
                  /\ FencesOf(f, LatestBase(f), LatestBase(f))
            /\ (~SyncResolves(f) /\ ~BaseResolves(f)) =>
                  /\ data[f].forward_port = None
                  /\ WarnedAbout(f) <=> f \notin index[UNPORTED]

\* an in-progress file whose sync commit is gone takes the older of two
\* history commits as both fences, with a warning
C10_Witness ==
    /\ pc = "done"
    /\ "a" \in DOMAIN data
    /\ "a" \in index[IN_PROGRESS]
    /\ port_status["a"].source = Some(Source(MathlibRepo, "bad"))
    /\ history = [k \in {"a"} |-> <<"c2", "gone">>]
    /\ FencesOf("a", "c2", "c2")
    /\ warnings = {"no sync commit for: a"}

====
